---- MODULE Spec2Model ----
(***************************************************************************)
(* The copier part of the Rent server: the client registry, the event log, *)
(* the slave directory and the HTTP handlers that read and change them     *)
(* (POST /copier/push, POST /copier/registerSlave, GET /copier/events,     *)
(* POST /copier/ack and the /admin/clients endpoints).                     *)
(*                                                                         *)
(* The repository holds two variants of the server, src/server.js and      *)
(* src/unnamed/part_000.  They differ in adminOk (an unset ADMIN_KEY       *)
(* allows / denies), in writeJsonSafe (a failed write throws / returns     *)
(* false) and in where /admin/clients/add puts the new client (push /      *)
(* unshift).  The variable `variant` says which file is running.           *)
(*                                                                         *)
(* Node runs every handler to completion, so one handler is one action.    *)
(* Time is counted in days: the code's millisecond values divided by       *)
(* 24*60*60*1000 (31 days in milliseconds does not fit TLC's integers).    *)
(***************************************************************************)
EXTENDS Integers, Sequences, FiniteSets, TLC

VARIABLES
    variant,      \* "server.js" or "part_000": the file that is running
    ADMIN_KEY,    \* process.env.ADMIN_KEY ("" when unset)
    MASTER_KEY,   \* process.env.MASTER_KEY ("" when unset)
    now,          \* nowMs(), in days
    clients,      \* clients.clients: the sequence of client records
    generated,    \* how many (clientId, apiKey) pairs crypto.randomBytes gave
    copier,       \* [nextId, events]
    slaves,       \* slaves.slaves: slaveKey -> [lastAckId, lastSeenAt]
    pushed,       \* the ids returned by the pushes answered 200, in order
    got           \* the ids of the events the slave that follows the log received

vars == <<variant, ADMIN_KEY, MASTER_KEY, now, clients, generated, copier,
          slaves, pushed, got>>

config == <<variant, ADMIN_KEY, MASTER_KEY>>

-----------------------------------------------------------------------------
(* Bounds of the model *)

MaxClients == 2     \* clients ever created
MaxPush == 3        \* ids ever drawn from copier.nextId
MaxNow == 62        \* the clock stops here
MaxBulk == 501      \* ids ever drawn in the long-log specification

-----------------------------------------------------------------------------
(* JavaScript values *)

\* A request field as it arrives: absent (or empty), a numeral, or a text
\* that is no numeral ("abc").
Absent == [k |-> "absent", v |-> 0]
Text == [k |-> "text", v |-> 0]
Numeral(n) == [k |-> "num", v |-> n]

\* A JavaScript number: an integer or NaN.
NaN == [nan |-> TRUE, v |-> 0]
Num(n) == [nan |-> FALSE, v |-> n]

\* Number(raw || dflt)
NumberOr(raw, dflt) ==
    CASE raw.k = "absent" -> Num(dflt)
      [] raw.k = "num" -> Num(raw.v)
      [] OTHER -> NaN

\* Math.max, Math.min: NaN when an argument is NaN
MathMax(a, b) == IF a.nan \/ b.nan THEN NaN ELSE IF a.v >= b.v THEN a ELSE b
MathMin(a, b) == IF a.nan \/ b.nan THEN NaN ELSE IF a.v <= b.v THEN a ELSE b

\* n < x where the loop has n <= x
LessEqStrict(n, x) == ~x.nan /\ n < x.v

\* n >= x and n <= x for an integer n: false when x is NaN
GreaterEq(n, x) == ~x.nan /\ n >= x.v
LessEq(n, x) == ~x.nan /\ n <= x.v

\* !x for a number
Falsy(x) == x.nan \/ x.v = 0

\* s.trim(), on the texts the requests of the model carry
Trim(s) ==
    CASE s = " K1 " -> "K1"
      [] s = " " -> ""
      [] s = " G1 " -> "G1"
      [] OTHER -> s

-----------------------------------------------------------------------------
(* Helpers *)

day == 1

\* A table in which every code is worth 31 days
addDurationMsFlat(code) == 31 * day

addDurationMs(code) ==
    CASE code = "M1" -> 31 * day
      [] code = "M3" -> 93 * day
      [] code = "M6" -> 186 * day
      [] code = "Y1" -> 366 * day
      [] OTHER -> 31 * day

\* crypto.randomBytes: the n-th clientId and apiKey; no value comes twice
ClientIdNames == <<"c1", "c2", "c3", "c4">>
ApiKeyNames == <<"K1", "K2", "K3", "K4">>
randClientId(n) == ClientIdNames[n]
randKey(n) == ApiKeyNames[n]

\* writeJsonSafe throws out of the handler: server.js has no try/catch around
\* fs.writeFileSync, part_000 catches, logs and returns false
WriteThrows(ok) == variant = "server.js" /\ ~ok

adminOk(hdr) ==
    IF ADMIN_KEY = "" THEN variant = "server.js" ELSE hdr = ADMIN_KEY

\* A master check that lets every push in when no secret is set
masterOkOpen(hdr) ==
    IF MASTER_KEY = "" THEN TRUE ELSE hdr = MASTER_KEY

masterOk(hdr) ==
    IF MASTER_KEY = "" THEN FALSE ELSE hdr = MASTER_KEY

\* A lookup that takes the first client whatever the id
findClientByIdAny(clientId) == IF Len(clients) > 0 THEN 1 ELSE 0

\* Array.prototype.find: the index of the first match, 0 when there is none
findClientByApiKey(apiKey) ==
    IF \E i \in 1..Len(clients) : clients[i].apiKey = apiKey
    THEN CHOOSE i \in 1..Len(clients) :
            /\ clients[i].apiKey = apiKey
            /\ \A j \in 1..(i - 1) : clients[j].apiKey # apiKey
    ELSE 0

findClientById(clientId) ==
    IF \E i \in 1..Len(clients) : clients[i].clientId = clientId
    THEN CHOOSE i \in 1..Len(clients) :
            /\ clients[i].clientId = clientId
            /\ \A j \in 1..(i - 1) : clients[j].clientId # clientId
    ELSE 0

\* An expiry that still admits the instant expiresAt = now
clientActiveStrict(c) == c.enabled /\ ~(c.expiresAt < now)

clientActive(c) == c.enabled /\ ~(c.expiresAt <= now)

\* requireClient: the status and error it answers, status 0 when it returns
\* the client
Answer(status, error) == [status |-> status, error |-> error]

\* A gate that never looks at the group of the request
requireClientNoGroup(hdr, groupIdFromReq) ==
    LET k == Trim(hdr)
        i == findClientByApiKey(k)
    IN  IF k = "" THEN Answer(401, "missing x-api-key")
        ELSE IF i = 0 THEN Answer(401, "invalid api key")
        ELSE IF ~clientActive(clients[i]) THEN Answer(403, "expired/disabled")
        ELSE Answer(0, "")

requireClient(hdr, groupIdFromReq) ==
    LET k == Trim(hdr)
        i == findClientByApiKey(k)
    IN  IF k = "" THEN Answer(401, "missing x-api-key")
        ELSE IF i = 0 THEN Answer(401, "invalid api key")
        ELSE IF ~clientActive(clients[i]) THEN Answer(403, "expired/disabled")
        ELSE IF groupIdFromReq # "" /\ clients[i].groupId # groupIdFromReq
        THEN Answer(403, "group mismatch")
        ELSE Answer(0, "")

slaveKey(group, slaveId) == group \o "|" \o slaveId

\* slaves.slaves[k], created with { lastAckId: 0, lastSeenAt: 0 } when absent
SlaveRec(k) ==
    IF k \in DOMAIN slaves THEN slaves[k] ELSE [lastAckId |-> 0, lastSeenAt |-> 0]

PutSlave(k, rec) == [x \in DOMAIN slaves \cup {k} |-> IF x = k THEN rec ELSE slaves[x]]

\* A trim that keeps the first 50000 events and drops the newest
TrimNewest(evs) ==
    IF Len(evs) > 50000 THEN SubSeq(evs, 1, 50000) ELSE evs

\* saveCopier's trim: keep the last 50000 events
MaxEvents == 50000
TrimEvents(evs) ==
    IF Len(evs) > MaxEvents THEN SubSeq(evs, Len(evs) - MaxEvents + 1, Len(evs)) ELSE evs

\* The loop of GET /copier/events: it goes through the events in order, keeps
\* those of the group whose id is not <= since, and breaks right after the
\* push that makes out.length >= limit.  With m the least count that the
\* break accepts, the result is the first m matches, and all of them when
\* there is no such count.
Matches(evs, group, since) ==
    SelectSeq(evs, LAMBDA ev : ev.group = group /\ ~LessEq(ev.id, since))

\* A scan that keeps the newest matches when there are more than the limit
ScanNewest(evs, group, since, limit) ==
    LET all == Matches(evs, group, since)
        stops == {m \in 1..Len(all) : GreaterEq(m, limit)}
    IN  IF stops = {} THEN all
        ELSE SubSeq(all, Len(all) + 1 - (CHOOSE m \in stops : \A n \in stops : m <= n),
                    Len(all))

Scan(evs, group, since, limit) ==
    LET all == Matches(evs, group, since)
        stops == {m \in 1..Len(all) : GreaterEq(m, limit)}
    IN  IF stops = {} THEN all
        ELSE SubSeq(all, 1, CHOOSE m \in stops : \A n \in stops : m <= n)

MaxLimit == 500
DefaultLimit == 200
\* Math.min(500, Math.max(1, Number(req.query.limit || 200)))
EffectiveLimit(rawLimit) ==
    MathMin(Num(MaxLimit), MathMax(Num(1), NumberOr(rawLimit, DefaultLimit)))

-----------------------------------------------------------------------------
(* The state after construction, with no file on disk *)

Init0 ==
    /\ now = 0
    /\ clients = <<>>
    /\ generated = 0
    /\ copier = [nextId |-> 1, events |-> <<>>]
    /\ slaves = [k \in {} |-> 0]
    /\ pushed = <<>>
    /\ got = <<>>

-----------------------------------------------------------------------------
(* What a handler does: the response and the collections it leaves.  `bad`  *)
(* is the set of files whose write fails while the handler runs.            *)

Files == {"clients", "copier", "slaves"}

\* A handler that answers without changing anything
Reject(status, error) ==
    [status |-> status, error |-> error, clients |-> clients, slaves |-> slaves,
     copier |-> copier, out |-> <<>>, id |-> 0]

\* The exception of writeJsonSafe reaches Express, which answers 500
Thrown(o) == [o EXCEPT !.status = 500, !.error = "write failed", !.out = <<>>, !.id = 0]

\* A handler has run with outcome `o`
Respond(o) ==
    /\ clients' = o.clients
    /\ slaves' = o.slaves
    /\ copier' = o.copier
    /\ UNCHANGED <<config, now, got>>

-----------------------------------------------------------------------------
(* POST /copier/push *)

\* A counter that stays where it is
NextIdStuck(n) == n

\* copier.nextId++ : the value the counter holds afterwards
NextIdAfter(n) == n + 1

NewEvent(id, group, type, ticket, symbol) ==
    [id |-> id, group |-> group, type |-> type, ts |-> now,
     master_ticket |-> ticket.v, symbol |-> symbol]

\* A push that puts the new event at the front of the log
PushOutcomeUnshift(hdr, group, type, rawTicket, symbol, bad) ==
    LET ticket == NumberOr(rawTicket, 0)
        ev == NewEvent(copier.nextId, group, type, ticket, symbol)
        counted == [copier EXCEPT !.nextId = NextIdAfter(copier.nextId)]
        o == [Reject(200, "") EXCEPT
                !.copier = [counted EXCEPT
                              !.events = TrimEvents(<<ev>> \o copier.events)],
                !.id = ev.id]
    IN  IF ~masterOk(hdr) THEN Reject(401, "unauthorized master")
        ELSE IF group = "" \/ (type # "OPEN" /\ type # "CLOSE")
        THEN Reject(400, "bad group/type")
        ELSE IF Falsy(ticket) \/ symbol = ""
        THEN [Reject(400, "missing master_ticket/symbol") EXCEPT !.copier = counted]
        ELSE IF WriteThrows("copier" \notin bad) THEN Thrown(o)
        ELSE o

PushOutcome(hdr, group, type, rawTicket, symbol, bad) ==
    LET ticket == NumberOr(rawTicket, 0)
        ev == NewEvent(copier.nextId, group, type, ticket, symbol)
        counted == [copier EXCEPT !.nextId = NextIdAfter(copier.nextId)]
        o == [Reject(200, "") EXCEPT
                !.copier = [counted EXCEPT
                              !.events = TrimEvents(Append(copier.events, ev))],
                !.id = ev.id]
    IN  IF ~masterOk(hdr) THEN Reject(401, "unauthorized master")
        ELSE IF group = "" \/ (type # "OPEN" /\ type # "CLOSE")
        THEN Reject(400, "bad group/type")
        ELSE IF Falsy(ticket) \/ symbol = ""
        THEN [Reject(400, "missing master_ticket/symbol") EXCEPT !.copier = counted]
        ELSE IF WriteThrows("copier" \notin bad) THEN Thrown(o)
        ELSE o

Push(hdr, group, type, rawTicket, symbol, bad) ==
    LET o == PushOutcome(hdr, group, type, rawTicket, symbol, bad)
    IN  /\ Respond(o)
        /\ pushed' = IF o.status = 200 THEN Append(pushed, o.id) ELSE pushed
        /\ UNCHANGED generated

-----------------------------------------------------------------------------
(* POST /copier/registerSlave, GET /copier/events, POST /copier/ack *)

\* A binding that goes to whoever calls last
BindDecisionRebind(c, slaveId) ==
    IF c.boundSlaveId = slaveId THEN "same" ELSE "bind"

\* What register and poll do with the client's binding
BindDecision(c, slaveId) ==
    IF c.boundSlaveId = "" THEN "bind"
    ELSE IF c.boundSlaveId # slaveId THEN "conflict"
    ELSE "same"

\* The check of ack: a conflict only when the client is bound
\* An ack that never looks at the binding
AckConflictNever(c, slaveId) == FALSE

AckConflict(c, slaveId) == c.boundSlaveId # "" /\ c.boundSlaveId # slaveId

\* A touch that also moves the cursor forward
TouchedAdvancing(k) ==
    [lastAckId |-> SlaveRec(k).lastAckId + 1, lastSeenAt |-> now]

\* slaves.slaves[k].lastSeenAt = nowMs()
Touched(k) == [SlaveRec(k) EXCEPT !.lastSeenAt = now]

\* lastAckId = event_id, without the Math.max
AckOverwrite(lastAckId, event_id) == event_id

\* lastAckId = Math.max(Number(lastAckId || 0), event_id)
AckValue(lastAckId, event_id) == IF lastAckId >= event_id THEN lastAckId ELSE event_id

\* The part register and poll share: bind, save the clients, touch the
\* cursor, save the slaves.  `conflict` is the error of a binding conflict.
\* A binding step that records the caller before it looks at the binding
BindAndTouchEager(i, group, slaveId, bad, conflict) ==
    LET d == BindDecision(clients[i], slaveId)
        k == slaveKey(group, slaveId)
        bound == [Reject(200, "") EXCEPT
                    !.clients = IF d = "bind"
                                THEN [clients EXCEPT ![i].boundSlaveId = slaveId]
                                ELSE clients]
        touched == [bound EXCEPT !.slaves = PutSlave(k, Touched(k))]
    IN  IF d = "conflict" THEN [Reject(403, conflict) EXCEPT !.slaves = PutSlave(k, Touched(k))]
        ELSE IF d = "bind" /\ WriteThrows("clients" \notin bad) THEN Thrown(bound)
        ELSE IF WriteThrows("slaves" \notin bad) THEN Thrown(touched)
        ELSE touched

BindAndTouch(i, group, slaveId, bad, conflict) ==
    LET d == BindDecision(clients[i], slaveId)
        k == slaveKey(group, slaveId)
        bound == [Reject(200, "") EXCEPT
                    !.clients = IF d = "bind"
                                THEN [clients EXCEPT ![i].boundSlaveId = slaveId]
                                ELSE clients]
        touched == [bound EXCEPT !.slaves = PutSlave(k, Touched(k))]
    IN  IF d = "conflict" THEN Reject(403, conflict)
        ELSE IF d = "bind" /\ WriteThrows("clients" \notin bad) THEN Thrown(bound)
        ELSE IF WriteThrows("slaves" \notin bad) THEN Thrown(touched)
        ELSE touched

RegisterOutcome(hdr, group, slaveId, bad) ==
    LET rc == requireClient(hdr, group)
    IN  IF group = "" \/ slaveId = "" THEN Reject(400, "missing group/slaveId")
        ELSE IF rc.status # 0 THEN Reject(rc.status, rc.error)
        ELSE BindAndTouch(findClientByApiKey(Trim(hdr)), group, slaveId, bad,
                          "this api key is already bound to another slaveId")

RegisterSlave(hdr, group, slaveId, bad) ==
    /\ Respond(RegisterOutcome(hdr, group, slaveId, bad))
    /\ UNCHANGED <<generated, pushed>>

PollOutcome(hdr, group, slaveId, rawSince, rawLimit, bad) ==
    LET since == NumberOr(rawSince, 0)
        limit == EffectiveLimit(rawLimit)
        rc == requireClient(hdr, group)
        o == BindAndTouch(findClientByApiKey(Trim(hdr)), group, slaveId, bad,
                          "boundSlaveId mismatch (1 account per client)")
    IN  IF group = "" \/ slaveId = "" THEN Reject(400, "missing group/slaveId")
        ELSE IF rc.status # 0 THEN Reject(rc.status, rc.error)
        ELSE IF o.status # 200 THEN o
        ELSE [o EXCEPT !.out = Scan(copier.events, group, since, limit)]

PollEvents(hdr, group, slaveId, rawSince, rawLimit, bad) ==
    /\ Respond(PollOutcome(hdr, group, slaveId, rawSince, rawLimit, bad))
    /\ UNCHANGED <<generated, pushed>>

\* The slave S1 of the first client polls with since = the highest id it has
\* received (0 at first) and keeps the ids of the events of a 200 answer
FollowSince == IF got = <<>> THEN Numeral(0) ELSE Numeral(got[Len(got)])

Follow(rawLimit, bad) ==
    LET o == PollOutcome("K1", "G1", "S1", FollowSince, rawLimit, bad)
    IN  /\ clients' = o.clients
        /\ slaves' = o.slaves
        /\ copier' = o.copier
        /\ got' = IF o.status = 200
                  THEN got \o [n \in 1..Len(o.out) |-> o.out[n].id]
                  ELSE got
        /\ UNCHANGED <<config, now, generated, pushed>>

AckOutcome(hdr, group, slaveId, rawEventId, status, bad) ==
    LET event_id == NumberOr(rawEventId, 0)
        rc == requireClient(hdr, group)
        i == findClientByApiKey(Trim(hdr))
        k == slaveKey(group, slaveId)
        o == [Reject(200, "") EXCEPT
                !.slaves = PutSlave(k, [Touched(k) EXCEPT
                              !.lastAckId = AckValue(SlaveRec(k).lastAckId, event_id.v)])]
    IN  IF group = "" \/ slaveId = "" \/ Falsy(event_id) \/ status = ""
        THEN Reject(400, "missing fields")
        ELSE IF rc.status # 0 THEN Reject(rc.status, rc.error)
        ELSE IF AckConflict(clients[i], slaveId) THEN Reject(403, "boundSlaveId mismatch")
        ELSE IF WriteThrows("slaves" \notin bad) THEN Thrown(o)
        ELSE o

Ack(hdr, group, slaveId, rawEventId, status, bad) ==
    /\ Respond(AckOutcome(hdr, group, slaveId, rawEventId, status, bad))
    /\ UNCHANGED <<generated, pushed>>

-----------------------------------------------------------------------------
(* The /admin/clients endpoints *)

\* String(b.duration || "M1")
DurationCode(raw) == IF raw = "" THEN "M1" ELSE raw

\* An admin handler that has changed the registry to `cs` and calls saveClients()
AdminSaved(cs, bad) ==
    LET o == [Reject(200, "") EXCEPT !.clients = cs]
    IN  IF WriteThrows("clients" \notin bad) THEN Thrown(o) ELSE o

ListOutcome(hdr) ==
    IF ~adminOk(hdr) THEN Reject(401, "unauthorized admin") ELSE Reject(200, "")

AdminList(hdr) ==
    /\ Respond(ListOutcome(hdr))
    /\ UNCHANGED <<generated, pushed>>

NewClient(n, fullName, groupId, duration) ==
    [clientId |-> randClientId(n), fullName |-> fullName, groupId |-> groupId,
     apiKey |-> randKey(n), enabled |-> TRUE, createdAt |-> now,
     expiresAt |-> now + addDurationMs(duration), boundSlaveId |-> ""]

\* clients.clients.push(c) in server.js, clients.clients.unshift(c) in part_000
Inserted(c) == IF variant = "server.js" THEN Append(clients, c) ELSE <<c>> \o clients

AddOutcome(hdr, rawName, rawGroup, rawDuration, bad) ==
    LET fullName == Trim(rawName)
        groupId == Trim(rawGroup)
        duration == Trim(DurationCode(rawDuration))
    IN  IF ~adminOk(hdr) THEN Reject(401, "unauthorized admin")
        ELSE IF fullName = "" \/ groupId = "" THEN Reject(400, "missing fullName/groupId")
        ELSE AdminSaved(Inserted(NewClient(generated + 1, fullName, groupId, duration)),
                        bad)

AdminAdd(hdr, rawName, rawGroup, rawDuration, bad) ==
    LET o == AddOutcome(hdr, rawName, rawGroup, rawDuration, bad)
    IN  /\ Respond(o)
        /\ generated' = IF o.clients # clients THEN generated + 1 ELSE generated
        /\ UNCHANGED pushed

\* A disable that also clears the binding
DisableOutcomeUnbinding(hdr, clientId, enabled, bad) ==
    LET i == findClientById(clientId)
    IN  IF ~adminOk(hdr) THEN Reject(401, "unauthorized admin")
        ELSE IF i = 0 THEN Reject(404, "not found")
        ELSE AdminSaved([clients EXCEPT ![i].enabled = enabled, ![i].boundSlaveId = ""], bad)

DisableOutcome(hdr, clientId, enabled, bad) ==
    LET i == findClientById(clientId)
    IN  IF ~adminOk(hdr) THEN Reject(401, "unauthorized admin")
        ELSE IF i = 0 THEN Reject(404, "not found")
        ELSE AdminSaved([clients EXCEPT ![i].enabled = enabled], bad)

AdminDisable(hdr, clientId, enabled, bad) ==
    /\ Respond(DisableOutcome(hdr, clientId, enabled, bad))
    /\ UNCHANGED <<generated, pushed>>

\* An extension counted from the previous expiry, without the Math.max
ExtendedFromPrevious(expiresAt, duration) == expiresAt + addDurationMs(duration)

\* Math.max(nowMs(), Number(c.expiresAt || 0)) + addDurationMs(duration)
Extended(expiresAt, duration) ==
    (IF now >= expiresAt THEN now ELSE expiresAt) + addDurationMs(duration)

ExtendOutcome(hdr, clientId, rawDuration, bad) ==
    LET i == findClientById(clientId)
    IN  IF ~adminOk(hdr) THEN Reject(401, "unauthorized admin")
        ELSE IF i = 0 THEN Reject(404, "not found")
        ELSE AdminSaved([clients EXCEPT ![i].expiresAt =
                            Extended(clients[i].expiresAt, DurationCode(rawDuration))],
                        bad)

AdminExtend(hdr, clientId, rawDuration, bad) ==
    /\ Respond(ExtendOutcome(hdr, clientId, rawDuration, bad))
    /\ UNCHANGED <<generated, pushed>>

ResetBindOutcome(hdr, clientId, bad) ==
    LET i == findClientById(clientId)
    IN  IF ~adminOk(hdr) THEN Reject(401, "unauthorized admin")
        ELSE IF i = 0 THEN Reject(404, "not found")
        ELSE AdminSaved([clients EXCEPT ![i].boundSlaveId = ""], bad)

AdminResetBind(hdr, clientId, bad) ==
    /\ Respond(ResetBindOutcome(hdr, clientId, bad))
    /\ UNCHANGED <<generated, pushed>>

\* A filter that keeps the client it should drop
WithoutInverted(clientId) == SelectSeq(clients, LAMBDA x : x.clientId = clientId)

\* clients.clients.filter(x => x.clientId !== clientId)
Without(clientId) == SelectSeq(clients, LAMBDA x : x.clientId # clientId)

DeleteOutcome(hdr, clientId, bad) ==
    IF ~adminOk(hdr) THEN Reject(401, "unauthorized admin")
    ELSE AdminSaved(Without(clientId), bad)

AdminDelete(hdr, clientId, bad) ==
    /\ Respond(DeleteOutcome(hdr, clientId, bad))
    /\ UNCHANGED <<generated, pushed>>

-----------------------------------------------------------------------------
(* Time passes between two requests *)

Tick(d) ==
    /\ now + d <= MaxNow
    /\ now' = now + d
    /\ UNCHANGED <<config, clients, generated, copier, slaves, pushed, got>>

-----------------------------------------------------------------------------
(* The requests of the model *)

Variants == {"server.js", "part_000"}

\* The writes that fail during one handler
TenantBad == {{}, {"clients"}, {"slaves"}}
AdminBad == {{}, {"clients"}}
MasterBad == {{}, {"copier"}}

ClientIdsIn == {"c1", "c2", "cX"}
AdminHeaders == {"", "adm"}
MasterHeaders == {"", "mk"}

-----------------------------------------------------------------------------
(* Spec: one group, two slave identities, the binding.  The clock stands.   *)

\* <<x-api-key, group, slaveId>> of a tenant call
BindCalls ==
    ({"K1", "K2", "KX"} \X {"G1"} \X {"S1", "S2"})
        \cup {<<"K1", "G1", "">>, <<"", "G1", "S1">>, <<"K1", "G2", "S1">>}

Init ==
    /\ Init0
    /\ variant \in Variants
    /\ ADMIN_KEY = "adm"
    /\ MASTER_KEY = "mk"

TenantCall ==
    \E q \in BindCalls, bad \in TenantBad :
        \/ RegisterSlave(q[1], q[2], q[3], bad)
        \/ PollEvents(q[1], q[2], q[3], Absent, Absent, bad)
        \/ \E ev \in {Absent, Numeral(1)} : Ack(q[1], q[2], q[3], ev, "DONE", bad)

AdminCall ==
    \E hdr \in AdminHeaders, bad \in AdminBad :
        \/ AdminList(hdr)
        \/ \E name \in {" ", "n"} :
              /\ generated < MaxClients
              /\ AdminAdd(hdr, name, "G1", "M1", bad)
        \/ \E id \in ClientIdsIn :
              \/ \E enabled \in BOOLEAN : AdminDisable(hdr, id, enabled, bad)
              \/ /\ \A i \in 1..Len(clients) : clients[i].expiresAt <= MaxNow
                 /\ AdminExtend(hdr, id, "M1", bad)
              \/ AdminResetBind(hdr, id, bad)
              \/ AdminDelete(hdr, id, bad)

MasterCall ==
    \E hdr \in MasterHeaders, bad \in MasterBad :
        /\ copier.nextId <= 1
        /\ Push(hdr, "G1", "OPEN", Numeral(101), "EURUSD", bad)

Next == TenantCall \/ AdminCall \/ MasterCall

Spec == Init /\ [][Next]_vars

-----------------------------------------------------------------------------
(* SpecGate: one slave identity, the clock, disable and delete: requireClient *)

TickSteps == {31}

\* <<x-api-key, group, slaveId>> of the tenant calls that drive the model
GateCalls ==
    ({"K1", "K2"} \X {"G1", "G2"} \X {"S1"})
        \cup {<<" K1 ", "G1", "S1">>, <<"KX", "G1", "S1">>, <<"K1", "G1", "">>}
GateBad == {{}, {"clients", "slaves"}}

GateTenantCall ==
    \E q \in GateCalls, bad \in GateBad :
        \/ RegisterSlave(q[1], q[2], q[3], bad)
        \/ PollEvents(q[1], q[2], q[3], Absent, Absent, bad)
        \/ /\ q[2] = "G1"
           /\ Ack(q[1], q[2], q[3], Numeral(1), "DONE", bad)

GateAdminCall ==
    \/ \E hdr \in AdminHeaders, bad \in AdminBad :
          /\ generated < MaxClients
          /\ AdminAdd(hdr, "n", "G1", "M1", bad)
    \/ \E id \in ClientIdsIn :
          \/ \E enabled \in BOOLEAN : AdminDisable("adm", id, enabled, {})
          \/ /\ \A i \in 1..Len(clients) :
                    clients[i].clientId = id => clients[i].expiresAt <= now
             /\ AdminExtend("adm", id, "M1", {})
          \/ \E bad \in AdminBad : AdminDelete("adm", id, bad)

Clock == \E d \in TickSteps : Tick(d)

GateNext == GateTenantCall \/ GateAdminCall \/ Clock

SpecGate == Init /\ [][GateNext]_vars

-----------------------------------------------------------------------------
(* SpecLog: the event log and the cursors: pushes to two groups, polls, acks *)

LogCalls == {<<"K1", "G1", "S1">>, <<"K2", "G2", "S1">>, <<"K1", "G2", "S1">>}

LogMasterCall ==
    /\ copier.nextId <= MaxPush
    /\ \/ \E group \in {"G1", "G2"}, bad \in MasterBad :
             Push("mk", group, "OPEN", Numeral(101), "EURUSD", bad)
       \/ Push("mk", "G1", "CLOSE", Absent, "EURUSD", {})
       \/ \E hdr \in MasterHeaders : Push(hdr, "", "OPEN", Numeral(101), "EURUSD", {})

LogTenantCall ==
    \E q \in LogCalls :
        \/ \E since \in {Absent, Numeral(1)}, limit \in {Absent, Numeral(1), Text} :
              PollEvents(q[1], q[2], q[3], since, limit, {})
        \/ /\ q[1] = "K1"
           /\ \E ev \in {Numeral(1), Numeral(2)} : Ack(q[1], q[2], q[3], ev, "DONE", {})

\* The clients are created for G1 and G2 in turn
LogAdminCall ==
    /\ generated < MaxClients
    /\ \E hdr \in AdminHeaders :
          AdminAdd(hdr, "n", IF generated % 2 = 0 THEN "G1" ELSE "G2", "M1", {})

LogNext == LogMasterCall \/ LogTenantCall \/ LogAdminCall

SpecLog == Init /\ [][LogNext]_vars

(* The log and one slave that follows it: SpecFollow. The pushes are those *)
(* of SpecLog; a second slave of the same client competes for the binding. *)
(* The follower polls again and again, and its polls whose save works are  *)
(* not postponed for ever.                                                 *)
FollowLimits == {Absent, Numeral(1), Text}

FollowAdminCall ==
    /\ generated < 1
    /\ AdminAdd("adm", "n", "G1", "M1", {})

FollowTenantCall ==
    \/ \E rawLimit \in FollowLimits, bad \in {{}, {"slaves"}} : Follow(rawLimit, bad)
    \/ RegisterSlave("K1", "G1", "S2", {})

FollowNext == LogMasterCall \/ FollowTenantCall \/ FollowAdminCall

SpecFollow ==
    Init /\ [][FollowNext]_vars /\ WF_vars(\E rawLimit \in FollowLimits : Follow(rawLimit, {}))

-----------------------------------------------------------------------------
(* SpecBulk: one client, one group and a log of more than 500 events *)

BulkNext ==
    \/ /\ generated < 1
       /\ AdminAdd("adm", "n", "G1", "M1", {})
    \/ /\ copier.nextId <= MaxBulk
       /\ Push("mk", "G1", "OPEN", Numeral(101), "EURUSD", {})
    \/ \E limit \in {Absent, Text} : PollEvents("K1", "G1", "S1", Absent, limit, {})

SpecBulk == Init /\ [][BulkNext]_vars

-----------------------------------------------------------------------------
(* SpecKeys: the admin and master secrets, set or not set *)

InitKeys ==
    /\ Init0
    /\ variant \in Variants
    /\ ADMIN_KEY \in {"", "adm"}
    /\ MASTER_KEY \in {"", "mk"}

KeysAdminCall ==
    \E hdr \in AdminHeaders :
        \/ AdminList(hdr)
        \/ /\ generated < MaxClients
           /\ AdminAdd(hdr, "n", "G1", "M1", {})
        \/ \E id \in {"c1", "cX"} :
              \/ AdminDisable(hdr, id, FALSE, {})
              \/ /\ \A i \in 1..Len(clients) : clients[i].expiresAt <= MaxNow
                 /\ AdminExtend(hdr, id, "M1", {})
              \/ AdminResetBind(hdr, id, {})
              \/ AdminDelete(hdr, id, {})

KeysMasterCall ==
    \E hdr \in MasterHeaders, group \in {"G1", "G2"} :
        /\ copier.nextId <= MaxPush
        /\ Push(hdr, group, "OPEN", Numeral(101), "EURUSD", {})

KeysTenantCall == RegisterSlave("K1", "G1", "S1", {})

KeysNext == KeysAdminCall \/ KeysMasterCall \/ KeysTenantCall

SpecKeys == InitKeys /\ [][KeysNext]_vars

-----------------------------------------------------------------------------
(* SpecTrim: a log that is about to reach its capacity *)

\* The ids the pushes of this specification draw after the log is full
MaxOver == 2

\* The process starts with a copier file of MaxEvents - 1 events, pushed to G1
\* on day 0
NearlyFull == MaxEvents - 1

InitTrim ==
    /\ variant \in Variants
    /\ ADMIN_KEY = "adm"
    /\ MASTER_KEY = "mk"
    /\ now = 0
    /\ clients = <<>>
    /\ generated = 0
    /\ copier = [nextId |-> NearlyFull + 1,
                 events |-> [i \in 1..NearlyFull |->
                               NewEvent(i, "G1", "OPEN", Num(101), "EURUSD")]]
    /\ slaves = [k \in {} |-> 0]
    /\ pushed = <<>>
    /\ got = <<>>

TrimNext ==
    /\ copier.nextId <= MaxEvents + MaxOver
    /\ \/ \E group \in {"G1", "G2"}, bad \in MasterBad :
             Push("mk", group, "OPEN", Numeral(101), "EURUSD", bad)
       \/ Push("mk", "G1", "OPEN", Absent, "EURUSD", {})

SpecTrim == InitTrim /\ [][TrimNext]_vars

-----------------------------------------------------------------------------
(* Properties of the binding, checked under Spec *)

SlaveNames == {"S1", "S2"}

\* The client is in the registry, enabled and not expired
IsActive(c) == c.enabled /\ c.expiresAt > now

\* The statuses register, poll and ack answer to <<key, group, slaveId>>
CallStatuses(key, group, slaveId, bad) ==
    {RegisterOutcome(key, group, slaveId, bad).status,
     PollOutcome(key, group, slaveId, Absent, Absent, bad).status,
     AckOutcome(key, group, slaveId, Numeral(1), "DONE", bad).status}

\* Every call through client c's key that carries another identity than s is
\* answered 403
OthersForbidden(c, s) ==
    \A t \in SlaveNames \ {s}, bad \in TenantBad :
        CallStatuses(c.apiKey, c.groupId, t, bad) = {403}

\* C2 (as claimed): binding is single-winner.  A first-time registerSlave on
\* an unbound, active client succeeds and binds its slaveId, and from then on
\* every register, poll and ack carrying another slaveId is answered 403.
C2_SingleWinner ==
    [][\A i \in 1..Len(clients), s \in SlaveNames, bad \in TenantBad :
        LET c == clients[i]
            o == RegisterOutcome(c.apiKey, c.groupId, s, bad)
        IN  (c.boundSlaveId = "" /\ IsActive(c)
                /\ RegisterSlave(c.apiKey, c.groupId, s, bad))
            => /\ o.status = 200
               /\ clients'[i].boundSlaveId = s
               /\ OthersForbidden(clients[i], s)']_vars

\* C2, without the write failure: the same statement where no write fails
\* or the failed write is caught (part_000)
C2_SingleWinnerSaved ==
    [][\A i \in 1..Len(clients), s \in SlaveNames, bad \in TenantBad :
        LET c == clients[i]
            o == RegisterOutcome(c.apiKey, c.groupId, s, bad)
        IN  (c.boundSlaveId = "" /\ IsActive(c) /\ ~WriteThrows(bad = {})
                /\ RegisterSlave(c.apiKey, c.groupId, s, bad))
            => /\ o.status = 200
               /\ clients'[i].boundSlaveId = s
               /\ OthersForbidden(clients[i], s)']_vars

\* The record of client `id` in the registry `cs`; used only when it is there
Has(cs, id) == \E i \in 1..Len(cs) : cs[i].clientId = id
Rec(cs, id) == cs[CHOOSE i \in 1..Len(cs) : cs[i].clientId = id]

\* C7: once a client's boundSlaveId is non-empty, a step that leaves the
\* client in the registry with another boundSlaveId is a resetBind of that
\* client; register, poll, ack, setEnabled, extend, push and add never change it.
C7_BoundUntilReset ==
    [][\A id \in {"c1", "c2"} :
        (Has(clients, id) /\ Rec(clients, id).boundSlaveId # ""
            /\ Has(clients', id)
            /\ Rec(clients', id).boundSlaveId # Rec(clients, id).boundSlaveId)
        => /\ \E hdr \in AdminHeaders, bad \in AdminBad : AdminResetBind(hdr, id, bad)
           /\ Rec(clients', id).boundSlaveId = ""]_vars

\* A bound client that has been disabled and extended since, with an event
\* pushed and the other identity answered 403, still bound
C7_Witness ==
    \E i \in 1..Len(clients) :
        /\ clients[i].boundSlaveId = "S1"
        /\ ~clients[i].enabled
        /\ clients[i].expiresAt = 62
        /\ Len(copier.events) = 1
        /\ slaveKey("G1", "S1") \in DOMAIN slaves
        /\ slaves[slaveKey("G1", "S1")].lastAckId = 1

\* What C8 says of the step that resets the binding of client `id`, bound to
\* S1 before: afterwards a registerSlave, or a poll, by S2 whose writes are
\* those of `b` succeeds and binds S2
ResetThenRebind(id, b) ==
    \A hdr \in AdminHeaders, bad \in AdminBad :
        (Has(clients, id) /\ Rec(clients, id).boundSlaveId = "S1"
            /\ IsActive(Rec(clients, id))
            /\ AdminResetBind(hdr, id, bad) /\ adminOk(hdr))
        => LET c == Rec(clients, id)
               r == RegisterOutcome(c.apiKey, c.groupId, "S2", b)
               p == PollOutcome(c.apiKey, c.groupId, "S2", Absent, Absent, b)
           IN  (/\ r.status = 200 /\ p.status = 200
                /\ Rec(r.clients, id).boundSlaveId = "S2"
                /\ Rec(p.clients, id).boundSlaveId = "S2")'

\* C8 (as claimed): while S1 is bound a call by S2 is answered 403; after a
\* resetBind of the client the next registerSlave, or poll, by S2 succeeds
\* and S2 is the bound identity.
C8_RebindAfterReset ==
    /\ [](\A i \in 1..Len(clients) :
            clients[i].boundSlaveId = "S1" => OthersForbidden(clients[i], "S1"))
    /\ [][\A id \in {"c1", "c2"}, b \in TenantBad : ResetThenRebind(id, b)]_vars

\* C8, without the write failure: the same statement for the calls by S2
\* during which no write fails
C8_RebindAfterResetSaved ==
    /\ [](\A i \in 1..Len(clients) :
            clients[i].boundSlaveId = "S1" => OthersForbidden(clients[i], "S1"))
    /\ [][\A id \in {"c1", "c2"} : ResetThenRebind(id, {})]_vars

-----------------------------------------------------------------------------
(* The requests the properties of the gate range over *)

AnyKey == {"", "K1", "K2", "K3", "KX", " K1 "}
AnyGroup == {"", "G1", "G2"}
AnySlave == {"", "S1", "S2"}
\* The acks: one with every field, and the ones with a field missing
AnyAck == {<<Numeral(1), "DONE">>, <<Absent, "DONE">>, <<Numeral(0), "DONE">>,
           <<Text, "DONE">>, <<Numeral(1), "">>}
AnyBad == {{}, {"clients", "slaves"}}

\* The statuses register, poll and ack answer to the calls that carry `key`,
\* `group` and `slaveId`; the well-formed ones have every required field
AllStatuses(key, group, slaveId) ==
    UNION {{RegisterOutcome(key, group, slaveId, bad).status,
            PollOutcome(key, group, slaveId, Absent, Absent, bad).status}
           \cup {AckOutcome(key, group, slaveId, a[1], a[2], bad).status : a \in AnyAck} :
           bad \in AnyBad}

WellFormedStatuses(key, group, slaveId) ==
    UNION {{RegisterOutcome(key, group, slaveId, bad).status,
            PollOutcome(key, group, slaveId, Absent, Absent, bad).status,
            AckOutcome(key, group, slaveId, Numeral(1), "DONE", bad).status} :
           bad \in AnyBad}

\* The keys that reach client c: the header is trimmed before the lookup
KeysOf(c) == {k \in AnyKey : Trim(k) = c.apiKey}

Lapsed(c) == ~c.enabled \/ c.expiresAt <= now

\* C3 (as claimed): a client that is disabled, or whose expiresAt <= now, is
\* answered 403 on every register, poll and ack that carries its API key.
C3_InactiveForbidden ==
    \A i \in 1..Len(clients) :
        Lapsed(clients[i])
        => \A k \in KeysOf(clients[i]), g \in AnyGroup, s \in AnySlave :
              AllStatuses(k, g, s) = {403}

\* C3 (amended): a client that is disabled, or whose expiresAt <= now, is
\* answered 403 on every register, poll and ack that carries its API key, a
\* non-empty group and a non-empty slaveId (and, for ack, an event_id and a
\* status); a call with a required field missing is answered 400.
C3_InactiveForbiddenWellFormed ==
    \A i \in 1..Len(clients) :
        Lapsed(clients[i])
        => \A k \in KeysOf(clients[i]), g \in AnyGroup, s \in AnySlave :
              IF g # "" /\ s # ""
              THEN /\ WellFormedStatuses(k, g, s) = {403}
                   /\ AllStatuses(k, g, s) = {400, 403}
              ELSE AllStatuses(k, g, s) = {400}

\* A client bound while it was active, whose expiry is this very instant,
\* and another one that is disabled
C3_Witness ==
    \E i, j \in 1..Len(clients) :
        /\ clients[i].enabled /\ clients[i].expiresAt = now
        /\ clients[i].boundSlaveId = "S1"
        /\ RegisterOutcome(clients[i].apiKey, clients[i].groupId, "S1", {}).error
              = "expired/disabled"
        /\ ~clients[j].enabled /\ clients[j].expiresAt > now

\* The keys that reach no client of the registry
Unknown(k) == \A i \in 1..Len(clients) : clients[i].apiKey # Trim(k)

\* C10 (as claimed): a call whose API key is absent or matches no client is
\* answered 401 whatever its group and slaveId.
C10_UnknownKeyUnauthorized ==
    \A k \in AnyKey, g \in AnyGroup, s \in AnySlave :
        Unknown(k) => AllStatuses(k, g, s) = {401}

\* The n-th client created is not in the registry
Gone(cs, n) == \A i \in 1..Len(cs) : cs[i].clientId # randClientId(n) /\ cs[i].apiKey # randKey(n)

\* C10 (amended): a call with a non-empty group and slaveId (and, for ack, an
\* event_id and a status) whose API key is absent or matches no client is
\* answered 401, and 400 when a required field is missing; a delete with the
\* admin key leaves no client of that id, and a client that has left the
\* registry never comes back, so its key is answered 401 from then on.
C10_UnknownKeyUnauthorizedWellFormed ==
    /\ [](\A k \in AnyKey, g \in AnyGroup, s \in AnySlave :
            Unknown(k) => IF g # "" /\ s # ""
                          THEN /\ WellFormedStatuses(k, g, s) = {401}
                               /\ AllStatuses(k, g, s) = {400, 401}
                          ELSE AllStatuses(k, g, s) = {400})
    /\ [](\A id \in ClientIdsIn, bad \in AdminBad :
            ~Has(DeleteOutcome(ADMIN_KEY, id, bad).clients, id))
    /\ [][\A n \in 1..generated : Gone(clients, n) => Gone(clients', n)]_vars

\* The first client has been deleted after it was bound and a second one was
\* created: the key of the first is answered 401
C10_Witness ==
    /\ generated = 2
    /\ Gone(clients, 1)
    /\ Has(clients, "c2")
    /\ slaveKey("G1", "S1") \in DOMAIN slaves
    /\ RegisterOutcome("K1", "G1", "S1", {}).error = "invalid api key"

-----------------------------------------------------------------------------
(* Properties of the log and of the cursors, checked under SpecLog *)

LogKeys == {"K1", "K2", " K1 ", "KX"}
LogGroups == {"G1", "G2"}
Sinces == {Absent, Numeral(-1), Numeral(0), Numeral(1), Numeral(2)}
Limits == {Absent, Text, Numeral(-1), Numeral(0), Numeral(1), Numeral(2), Numeral(501)}

\* The number a numeric request field stands for
Requested(raw, dflt) == IF raw = Absent THEN dflt ELSE raw.v

\* C1: every push answered 200 gets an id above the id of every earlier push
\* answered 200 and above every id in the log, whatever the groups; no two
\* events of the log have the same id.
C1_PushIdsIncrease ==
    /\ \A a, b \in 1..Len(pushed) : a < b => pushed[a] < pushed[b]
    /\ \A a, b \in 1..Len(copier.events) :
            a # b => copier.events[a].id # copier.events[b].id
    /\ \A group \in LogGroups, bad \in MasterBad :
            LET o == PushOutcome(MASTER_KEY, group, "OPEN", Numeral(101), "EURUSD", bad)
            IN  o.status = 200
                => /\ \A a \in 1..Len(pushed) : pushed[a] < o.id
                   /\ \A a \in 1..Len(copier.events) : copier.events[a].id < o.id
                   /\ \E a \in 1..Len(o.copier.events) : o.copier.events[a].id = o.id

\* Two pushes answered 200, to different groups, with a rejected push that
\* drew an id between them
C1_Witness ==
    /\ Len(pushed) = 2
    /\ pushed[2] > pushed[1] + 1
    /\ \E a, b \in 1..Len(copier.events) :
            /\ copier.events[a].id = pushed[1] /\ copier.events[a].group = "G1"
            /\ copier.events[b].id = pushed[2] /\ copier.events[b].group = "G2"

\* C4: whatever the log, the group, the numeric since and the limit, every
\* event a poll answered 200 returns has id > since and the group of the
\* request, and the events come in strictly ascending id order.
C4_ListSince ==
    \A k \in {"K1", "K2"}, g \in LogGroups, since \in Sinces, limit \in Limits :
        LET o == PollOutcome(k, g, "S1", since, limit, {})
        IN  o.status = 200
            => \A a \in 1..Len(o.out) :
                  /\ o.out[a].id > Requested(since, 0)
                  /\ o.out[a].group = g
                  /\ a > 1 => o.out[a - 1].id < o.out[a].id

\* The log holds G1, G2, G1; the client of G1 has polled, and a poll since 1
\* returns the third event alone
C4_Witness ==
    /\ Len(copier.events) = 3
    /\ copier.events[1].group = "G1" /\ copier.events[2].group = "G2"
    /\ copier.events[3].group = "G1"
    /\ slaveKey("G1", "S1") \in DOMAIN slaves
    /\ LET o == PollOutcome("K1", "G1", "S1", Numeral(1), Absent, {})
       IN  o.status = 200 /\ Len(o.out) = 1 /\ o.out[1].id = 3

\* C5 (as claimed): whatever limit is supplied (zero, negative, above 500,
\* absent, not a number) a poll answered 200 returns at most 500 events, and at
\* most max(1, limit) when the limit is a number.
C5_LimitClamped ==
    \A limit \in Limits :
        LET o == PollOutcome("K1", "G1", "S1", Absent, limit, {})
        IN  o.status = 200
            => /\ Len(o.out) <= 500
               /\ limit # Text
                    => \/ Len(o.out) <= Requested(limit, 200)
                       \/ Len(o.out) <= 1

\* The last acknowledged id of cursor k, 0 when there is no cursor yet
Cursor(sl, k) == IF k \in DOMAIN sl THEN sl[k].lastAckId ELSE 0

\* C6: no step lowers the lastAckId of a cursor, and an ack answered 200
\* leaves max(previous lastAckId, event_id), so an older or repeated id leaves
\* it unchanged.
C6_AckMonotonic ==
    /\ [](\A k \in LogKeys, g \in LogGroups, s \in SlaveNames,
             ev \in {Numeral(-1), Numeral(1), Numeral(2), Numeral(3)}, bad \in AnyBad :
            LET o == AckOutcome(k, g, s, ev, "DONE", bad)
                prev == Cursor(slaves, slaveKey(g, s))
            IN  o.status = 200
                => /\ Cursor(o.slaves, slaveKey(g, s)) = IF prev >= ev.v THEN prev ELSE ev.v
                   /\ ev.v <= prev => Cursor(o.slaves, slaveKey(g, s)) = prev)
    /\ [][\A k \in DOMAIN slaves :
            k \in DOMAIN slaves' /\ slaves'[k].lastAckId >= slaves[k].lastAckId]_vars

\* Id 2 has been acknowledged, and an ack of id 1 is answered 200
C6_Witness ==
    /\ Cursor(slaves, slaveKey("G1", "S1")) = 2
    /\ AckOutcome("K1", "G1", "S1", Numeral(1), "DONE", {}).status = 200

\* The events a poll answered 200 returns are of the group of the client
\* that the key of the request matches
OwnGroupOnly ==
    \A k \in LogKeys, g \in LogGroups, s \in SlaveNames, since \in {Absent, Numeral(1)} :
        LET o == PollOutcome(k, g, s, since, Absent, {})
        IN  o.status = 200
            => \E i \in 1..Len(clients) :
                  /\ clients[i].apiKey = Trim(k)
                  /\ \A a \in 1..Len(o.out) : o.out[a].group = clients[i].groupId

\* C9 (as claimed): every register, poll and ack whose group differs from
\* the groupId of the client its key matches is answered 403, and the events
\* of a poll answered 200 have the group of that client.
C9_GroupIsolation ==
    /\ \A i \in 1..Len(clients) :
          \A k \in KeysOf(clients[i]), g \in AnyGroup \ {clients[i].groupId}, s \in AnySlave :
              AllStatuses(k, g, s) = {403}
    /\ OwnGroupOnly

\* C9 (amended): every register, poll and ack that carries a non-empty group
\* differing from the groupId of the client its key matches, and a non-empty
\* slaveId (for ack also an event_id and a status), is answered 403; the call
\* with a required field missing is answered 400; and the events of a poll
\* answered 200 have the group of that client.
C9_GroupIsolationWellFormed ==
    /\ \A i \in 1..Len(clients) :
          \A k \in KeysOf(clients[i]), g \in AnyGroup \ {clients[i].groupId}, s \in AnySlave :
              IF g # "" /\ s # ""
              THEN /\ WellFormedStatuses(k, g, s) = {403}
                   /\ AllStatuses(k, g, s) = {400, 403}
              ELSE AllStatuses(k, g, s) = {400}
    /\ OwnGroupOnly

\* The log holds events of both groups, the client of G1 has polled and got
\* its events, and its poll of G2 is answered "group mismatch"
C9_Witness ==
    /\ \E a, b \in 1..Len(copier.events) :
            copier.events[a].group = "G1" /\ copier.events[b].group = "G2"
    /\ \E i \in 1..Len(clients) :
            /\ clients[i].apiKey = "K1" /\ clients[i].groupId = "G1"
            /\ clients[i].boundSlaveId = "S1"
    /\ Len(PollOutcome("K1", "G1", "S1", Absent, Absent, {}).out) > 0
    /\ PollOutcome("K1", "G2", "S1", Absent, Absent, {}).error = "group mismatch"

-----------------------------------------------------------------------------
(* Properties of the master and admin secrets, checked under SpecKeys *)

AnyMasterHeader == {"", "mk", "zz"}
AnyAdminHeader == {"", "adm", "zz"}

\* The pushes: well-formed ones and ones with a field missing
AnyPush ==
    {<<"G1", "OPEN", Numeral(101), "EURUSD">>, <<"G2", "CLOSE", Numeral(7), "XAUUSD">>,
     <<"", "OPEN", Numeral(101), "EURUSD">>, <<"G1", "OPEN", Absent, "EURUSD">>}

\* C11: a push whose x-master-key is not the configured master secret, and
\* every push when no master secret is configured, is answered 401 and leaves
\* the events and the id counter as they were.
C11_MasterSecret ==
    \A hdr \in AnyMasterHeader, q \in AnyPush, bad \in MasterBad :
        LET o == PushOutcome(hdr, q[1], q[2], q[3], q[4], bad)
        IN  (MASTER_KEY = "" \/ hdr # MASTER_KEY)
            => o.status = 401 /\ o.copier = copier

\* No master secret is set, the admin has created a client, and a push with
\* an empty x-master-key is answered 401
C11_Witness ==
    /\ MASTER_KEY = ""
    /\ Len(clients) > 0
    /\ copier = [nextId |-> 1, events |-> <<>>]
    /\ PushOutcome("", "G1", "OPEN", Numeral(101), "EURUSD", {}).error = "unauthorized master"

\* The outcomes of the six admin requests that carry x-admin-key hdr
AdminOutcomes(hdr) ==
    {ListOutcome(hdr)}
        \cup {AddOutcome(hdr, "n", "G1", "M1", bad) : bad \in AdminBad}
        \cup UNION {{DisableOutcome(hdr, id, FALSE, bad), ExtendOutcome(hdr, id, "M1", bad),
                     ResetBindOutcome(hdr, id, bad), DeleteOutcome(hdr, id, bad)} :
                    id \in ClientIdsIn, bad \in AdminBad}

\* C12 (as claimed): when no admin secret is configured, every admin request
\* (list, add, disable, extend, resetBind, delete) is answered 401 and leaves
\* the clients as they were, in server.js and in part_000.
C12_AdminSecretUnset ==
    ADMIN_KEY = ""
    => \A hdr \in AnyAdminHeader :
          \A o \in AdminOutcomes(hdr) : o.status = 401 /\ o.clients = clients

-----------------------------------------------------------------------------
(* Properties of extend, checked under SpecGate *)

\* The days of a duration code
DaysOf(code) ==
    CASE code = "M3" -> 93
      [] code = "M6" -> 186
      [] code = "Y1" -> 366
      [] OTHER -> 31

\* C13: an extend of a client of the registry leaves expiresAt at
\* max(now, previous expiresAt) + the days of the duration, which is never
\* below the previous value; for an expired client and M1 that is now + 31
\* days; and a client whose expiresAt a step has raised passes the gate right
\* after that step if it is enabled.
C13_Extend ==
    /\ [](\A id \in {"c1", "c2", "c3"}, dur \in {"", "M1", "M3", "XX"}, bad \in AdminBad :
            Has(clients, id)
            => LET o == ExtendOutcome(ADMIN_KEY, id, dur, bad)
                   prev == Rec(clients, id).expiresAt
                   new == Rec(o.clients, id).expiresAt
               IN  /\ o.status \in {200, 500}
                   /\ Has(o.clients, id)
                   /\ new = (IF now >= prev THEN now ELSE prev) + DaysOf(dur)
                   /\ new >= prev
                   /\ (prev <= now /\ dur = "M1") => new = now + 31
                   /\ new > now)
    /\ [][\A id \in {"c1", "c2", "c3"} :
            (/\ Has(clients, id) /\ Has(clients', id)
             /\ Rec(clients', id).expiresAt # Rec(clients, id).expiresAt)
            => /\ Rec(clients', id).expiresAt > Rec(clients, id).expiresAt
               /\ Rec(clients', id).enabled
                    => (requireClient(Rec(clients, id).apiKey, Rec(clients, id).groupId).status = 0)']_vars

\* A client created at 0 for 31 days has been extended on day 31, when it
\* had just expired: it runs until day 62 and passes the gate
C13_Witness ==
    /\ now = 31
    /\ \E i \in 1..Len(clients) :
          /\ clients[i].createdAt = 0 /\ clients[i].expiresAt = 62 /\ clients[i].enabled
          /\ requireClient(clients[i].apiKey, clients[i].groupId).status = 0

-----------------------------------------------------------------------------
(* Properties of the retention, checked under SpecTrim *)

\* C14: after a push the log holds at most 50000 events, and they are the
\* last events of the log as it was with the new event appended, in the same
\* order: only the oldest events go.
C14_Retention ==
    /\ Len(copier.events) <= 50000
    /\ \A group \in LogGroups, bad \in MasterBad :
          LET o == PushOutcome(MASTER_KEY, group, "OPEN", Numeral(101), "EURUSD", bad)
              full == Append(copier.events,
                             NewEvent(copier.nextId, group, "OPEN", Num(101), "EURUSD"))
              kept == o.copier.events
          IN  /\ o.status \in {200, 500}
              /\ Len(kept) = IF Len(full) > 50000 THEN 50000 ELSE Len(full)
              /\ kept = SubSeq(full, Len(full) - Len(kept) + 1, Len(full))

\* The log is full and has lost its oldest events: it starts after id 1 and
\* ends with the event pushed last
C14_Witness ==
    /\ Len(copier.events) = 50000
    /\ copier.events[1].id > 1
    /\ Len(pushed) > 0
    /\ copier.events[50000].id = pushed[Len(pushed)]
    /\ copier.events[50000].group = "G2"

-----------------------------------------------------------------------------
(* Properties of ack, poll and the failing write, checked under Spec *)

\* What C15 says of client i and slaveId s when the writes in `bad` fail
AckLeavesUnbound(i, s, bad) ==
    LET c == clients[i]
        k == slaveKey(c.groupId, s)
        a == AckOutcome(c.apiKey, c.groupId, s, Numeral(1), "DONE", bad)
        r == RegisterOutcome(c.apiKey, c.groupId, s, bad)
        p == PollOutcome(c.apiKey, c.groupId, s, Absent, Absent, bad)
    IN  /\ a.status = 200
        /\ k \in DOMAIN a.slaves
        /\ a.slaves[k].lastAckId = (IF Cursor(slaves, k) >= 1 THEN Cursor(slaves, k) ELSE 1)
        /\ a.slaves[k].lastSeenAt = now
        /\ a.clients[i].boundSlaveId = ""
        /\ r.clients[i].boundSlaveId = s
        /\ p.clients[i].boundSlaveId = s

\* C15 (as claimed): an ack by slaveId X through the key of an active client
\* whose boundSlaveId is empty is answered 200, updates the (group, X) cursor
\* and leaves boundSlaveId empty, while a registerSlave or a poll by X sets
\* boundSlaveId to X.
C15_AckDoesNotBind ==
    \A i \in 1..Len(clients), s \in SlaveNames, bad \in TenantBad :
        (clients[i].boundSlaveId = "" /\ IsActive(clients[i]))
        => AckLeavesUnbound(i, s, bad)

\* C15, without the write failure: the same statement where no write fails
\* or the failed write is caught (part_000)
C15_AckDoesNotBindSaved ==
    \A i \in 1..Len(clients), s \in SlaveNames, bad \in TenantBad :
        (clients[i].boundSlaveId = "" /\ IsActive(clients[i]) /\ ~WriteThrows(bad = {}))
        => AckLeavesUnbound(i, s, bad)

\* C16: a poll, whatever it answers, leaves the events and the id counter as
\* they were and the lastAckId of every cursor as it was, a cursor it creates
\* having lastAckId 0; and a step that changes the lastAckId of a cursor is
\* an ack.
C16_PollKeepsCursors ==
    /\ [](\A q \in BindCalls, limit \in {Absent, Numeral(1)}, bad \in TenantBad :
            LET o == PollOutcome(q[1], q[2], q[3], Absent, limit, bad)
            IN  /\ o.copier = copier
                /\ \A x \in DOMAIN o.slaves : o.slaves[x].lastAckId = Cursor(slaves, x))
    /\ [][(\E x \in DOMAIN slaves' : slaves'[x].lastAckId # Cursor(slaves, x))
          => \E q \in BindCalls, bad \in TenantBad :
                Ack(q[1], q[2], q[3], Numeral(1), "DONE", bad)]_vars

\* Event 1 is in the log and acknowledged by S1; S1 polls again, gets the
\* event, and the cursor stays at 1
C16_Witness ==
    /\ Len(copier.events) = 1
    /\ Cursor(slaves, slaveKey("G1", "S1")) = 1
    /\ LET o == PollOutcome("K1", "G1", "S1", Absent, Absent, {})
       IN  /\ o.status = 200 /\ Len(o.out) = 1
           /\ o.slaves[slaveKey("G1", "S1")].lastAckId = 1

\* C17 (as claimed): a failing write changes neither the answer nor the
\* in-memory effect of push, registerSlave, poll, ack, add, disable, extend,
\* resetBind and delete, in server.js and in part_000.
C17_SaveNeverFatal ==
    /\ \A bad \in MasterBad :
          PushOutcome(MASTER_KEY, "G1", "OPEN", Numeral(101), "EURUSD", bad)
            = PushOutcome(MASTER_KEY, "G1", "OPEN", Numeral(101), "EURUSD", {})
    /\ \A q \in BindCalls, bad \in TenantBad :
          /\ RegisterOutcome(q[1], q[2], q[3], bad) = RegisterOutcome(q[1], q[2], q[3], {})
          /\ PollOutcome(q[1], q[2], q[3], Absent, Absent, bad)
                = PollOutcome(q[1], q[2], q[3], Absent, Absent, {})
          /\ AckOutcome(q[1], q[2], q[3], Numeral(1), "DONE", bad)
                = AckOutcome(q[1], q[2], q[3], Numeral(1), "DONE", {})
    /\ \A bad \in AdminBad :
          /\ AddOutcome(ADMIN_KEY, "n", "G1", "M1", bad) = AddOutcome(ADMIN_KEY, "n", "G1", "M1", {})
          /\ \A id \in ClientIdsIn :
                /\ DisableOutcome(ADMIN_KEY, id, FALSE, bad) = DisableOutcome(ADMIN_KEY, id, FALSE, {})
                /\ ExtendOutcome(ADMIN_KEY, id, "M1", bad) = ExtendOutcome(ADMIN_KEY, id, "M1", {})
                /\ ResetBindOutcome(ADMIN_KEY, id, bad) = ResetBindOutcome(ADMIN_KEY, id, {})
                /\ DeleteOutcome(ADMIN_KEY, id, bad) = DeleteOutcome(ADMIN_KEY, id, {})

\* C17, in part_000 alone, where writeJsonSafe catches the error
C17_SaveNeverFatalCaught == variant = "part_000" => C17_SaveNeverFatal

\* What C20 says of client i, bound to s, when the writes in `bad` fail
RegisterAgain(i, s, bad) ==
    LET c == clients[i]
        k == slaveKey(c.groupId, s)
        o == RegisterOutcome(c.apiKey, c.groupId, s, bad)
    IN  /\ o.status = 200
        /\ o.clients = clients
        /\ o.clients[i].boundSlaveId = s
        /\ o.slaves[k].lastAckId = slaves[k].lastAckId
        /\ \A x \in DOMAIN slaves \ {k} : o.slaves[x] = slaves[x]
        /\ o.copier = copier

\* C20 (as claimed): once a registerSlave of slaveId s through the key of an
\* active client has bound s and created its cursor, the same registerSlave
\* is answered 200 again and leaves boundSlaveId and the lastAckId of the
\* cursor as they are.
C20_RegisterIdempotent ==
    \A i \in 1..Len(clients), s \in SlaveNames, bad \in TenantBad :
        (/\ clients[i].boundSlaveId = s /\ IsActive(clients[i])
         /\ slaveKey(clients[i].groupId, s) \in DOMAIN slaves)
        => RegisterAgain(i, s, bad)

\* C20, without the write failure: the same statement where no write fails
\* or the failed write is caught (part_000)
C20_RegisterIdempotentSaved ==
    \A i \in 1..Len(clients), s \in SlaveNames, bad \in TenantBad :
        (/\ clients[i].boundSlaveId = s /\ IsActive(clients[i])
         /\ slaveKey(clients[i].groupId, s) \in DOMAIN slaves
         /\ ~WriteThrows(bad = {}))
        => RegisterAgain(i, s, bad)

-----------------------------------------------------------------------------
(* Properties of create, checked under SpecGate *)

AnyName == {"", " ", "n"}
AnyGroupId == {"", " ", "G1", " G1 "}
AnyDuration == {"", "M1", "M3", "M6", "Y1", "XX"}

\* The clients of `cs` that are not in the registry
Added(cs) == {j \in 1..Len(cs) : \A i \in 1..Len(clients) : clients[i] # cs[j]}

\* C18: an add with the admin key and a fullName and groupId that are not
\* empty once trimmed leaves the registry with exactly one more client, which
\* is enabled, unbound, created now and expires 31, 93, 186 or 366 days from
\* now for M1, M3, M6, Y1 and 31 days for any other code; with an empty
\* fullName or groupId it is answered 400 and the registry stays as it is.
C18_Create ==
    \A name \in AnyName, group \in AnyGroupId, dur \in AnyDuration, bad \in AdminBad :
        LET o == AddOutcome(ADMIN_KEY, name, group, dur, bad)
        IN  IF name \in {"", " "} \/ group \in {"", " "}
            THEN o.status = 400 /\ o.clients = clients
            ELSE /\ o.status \in {200, 500}
                 /\ Len(o.clients) = Len(clients) + 1
                 /\ \A i \in 1..Len(clients) : \E j \in 1..Len(o.clients) : o.clients[j] = clients[i]
                 /\ \E j \in 1..Len(o.clients) :
                       /\ Added(o.clients) = {j}
                       /\ o.clients[j].enabled
                       /\ o.clients[j].boundSlaveId = ""
                       /\ o.clients[j].createdAt = now
                       /\ o.clients[j].groupId = "G1"
                       /\ o.clients[j].expiresAt =
                            now + (CASE dur = "M3" -> 93 [] dur = "M6" -> 186
                                     [] dur = "Y1" -> 366 [] OTHER -> 31)

\* A second client has been created on day 31, while the first, created on
\* day 0, is still in the registry
C18_Witness ==
    /\ now = 31
    /\ \E i, j \in 1..Len(clients) :
          /\ clients[i].createdAt = 0 /\ clients[i].clientId = "c1"
          /\ clients[j].createdAt = 31 /\ clients[j].expiresAt = 62
          /\ clients[j].enabled /\ clients[j].boundSlaveId = ""

-----------------------------------------------------------------------------
(* Properties of the admin calls on an absent client, checked under Spec *)

AnyClientId == {"", "c1", "c2", "c3", "cX"}

\* C19: a disable, an extend and a resetBind with the admin key and a
\* clientId that is not in the registry are answered 404 and leave every
\* client as it is.
C19_NotFound ==
    \A id \in AnyClientId, bad \in AdminBad :
        ~Has(clients, id)
        => \A o \in {DisableOutcome(ADMIN_KEY, id, FALSE, bad),
                     DisableOutcome(ADMIN_KEY, id, TRUE, bad),
                     ExtendOutcome(ADMIN_KEY, id, "M1", bad),
                     ResetBindOutcome(ADMIN_KEY, id, bad)} :
              o.status = 404 /\ o.clients = clients

\* The first client has been deleted and the second, bound and disabled, is
\* in the registry: a resetBind of the first is answered "not found"
C19_Witness ==
    /\ ~Has(clients, "c1")
    /\ Has(clients, "c2")
    /\ Rec(clients, "c2").boundSlaveId = "S1"
    /\ ~Rec(clients, "c2").enabled
    /\ ResetBindOutcome(ADMIN_KEY, "c1", {}).error = "not found"

-----------------------------------------------------------------------------
(* Properties of the id counter and of the acknowledged ids, under SpecLog *)

\* The pushes that are answered 400: no group, a type that is neither OPEN
\* nor CLOSE, no master_ticket, a master_ticket of 0, no symbol
BadPushes ==
    {<<"", "OPEN", Numeral(101), "EURUSD">>, <<"G1", "MODIFY", Numeral(101), "EURUSD">>,
     <<"G1", "OPEN", Absent, "EURUSD">>, <<"G1", "CLOSE", Numeral(0), "EURUSD">>,
     <<"G2", "OPEN", Numeral(101), "">>}

\* C21 (as claimed): a push answered 400 leaves the events and the id counter
\* as they were, so the n-th push answered 200 gets id n.
C21_RejectedPushDrawsNoId ==
    /\ \A q \in BadPushes, bad \in MasterBad :
          LET o == PushOutcome(MASTER_KEY, q[1], q[2], q[3], q[4], bad)
          IN  o.status = 400 /\ o.copier = copier
    /\ \A n \in 1..Len(pushed) : pushed[n] = n

\* C21, for the pushes rejected before the id is drawn: no group, or a type
\* that is neither OPEN nor CLOSE
C21_BadGroupOrTypeDrawsNoId ==
    \A q \in {<<"", "OPEN">>, <<"G1", "MODIFY">>, <<"G1", "">>}, bad \in MasterBad :
        LET o == PushOutcome(MASTER_KEY, q[1], q[2], Numeral(101), "EURUSD", bad)
        IN  o.status = 400 /\ o.copier = copier

\* The outcomes of the handlers other than push, for the requests of SpecLog
OtherOutcomes ==
    UNION {{RegisterOutcome(q[1], q[2], q[3], bad),
            PollOutcome(q[1], q[2], q[3], Absent, Absent, bad),
            AckOutcome(q[1], q[2], q[3], Numeral(1), "DONE", bad)} :
           q \in LogCalls, bad \in AnyBad}
      \cup {ListOutcome(ADMIN_KEY), AddOutcome(ADMIN_KEY, "n", "G1", "M1", {})}
      \cup UNION {{DisableOutcome(ADMIN_KEY, id, FALSE, {}), ExtendOutcome(ADMIN_KEY, id, "M1", {}),
                   ResetBindOutcome(ADMIN_KEY, id, {}), DeleteOutcome(ADMIN_KEY, id, {})} :
                  id \in {"c1", "cX"}}

\* C22: the stored events are in strictly ascending id order and the id
\* counter is above every stored id; no handler other than push changes the
\* events or the counter; the counter never goes down; and a step that
\* changes the events leaves the old events, in their order and unmodified,
\* less some at the front, followed by one new event that has the id the
\* counter held.
C22_AppendOnly ==
    /\ [](/\ \A a, b \in 1..Len(copier.events) :
                a < b => copier.events[a].id < copier.events[b].id
          /\ \A a \in 1..Len(copier.events) : copier.events[a].id < copier.nextId
          /\ \A o \in OtherOutcomes : o.copier = copier)
    /\ [][/\ copier'.nextId >= copier.nextId
          /\ copier'.events # copier.events
               => /\ Len(copier'.events) > 0
                  /\ copier'.events[Len(copier'.events)].id = copier.nextId
                  /\ \E k \in 1..(Len(copier.events) + 1) :
                        copier'.events =
                          SubSeq(Append(copier.events, copier'.events[Len(copier'.events)]),
                                 k, Len(copier.events) + 1)]_vars

\* Two events of G1 are stored, the second after a rejected push that drew
\* an id; both clients exist and the cursor of S1 is at 1
C22_Witness ==
    /\ Len(copier.events) = 2
    /\ copier.events[1].group = "G1" /\ copier.events[2].group = "G1"
    /\ copier.nextId = 4
    /\ Len(clients) = 2
    /\ Cursor(slaves, slaveKey("G1", "S1")) = 1

(* Properties of the fields of a client, under SpecGate *)
TenantOutcomes ==
    UNION {{RegisterOutcome(q[1], q[2], q[3], bad),
            PollOutcome(q[1], q[2], q[3], Absent, Absent, bad),
            AckOutcome(q[1], q[2], q[3], Numeral(1), "DONE", bad)} :
           q \in GateCalls, bad \in GateBad}
EnabledOutcomes ==
    {DisableOutcome(ADMIN_KEY, id, e, bad) : id \in ClientIdsIn, e \in BOOLEAN, bad \in AdminBad}
ExtendOutcomes ==
    {ExtendOutcome(ADMIN_KEY, id, d, bad) : id \in ClientIdsIn, d \in AnyDuration, bad \in AdminBad}
RegistryOutcomes ==
    {AddOutcome(ADMIN_KEY, "n", "G2", "M3", bad) : bad \in AdminBad}
      \cup UNION {{ResetBindOutcome(ADMIN_KEY, id, bad), DeleteOutcome(ADMIN_KEY, id, bad)} :
                  id \in ClientIdsIn, bad \in AdminBad}
      \cup {PushOutcome(MASTER_KEY, "G1", "OPEN", Numeral(101), "EURUSD", {}), ListOutcome(ADMIN_KEY)}
Identity(c) == <<c.clientId, c.apiKey, c.groupId, c.createdAt>>
Kept(cs) == {id \in ClientIdsIn : Has(clients, id) /\ Has(cs, id)}

\* C23: whatever the handler, a client that is in the registry before and
\* after it keeps its clientId, apiKey, groupId and createdAt; every handler
\* other than extend leaves its expiresAt, every handler other than
\* disable/enable leaves its enabled flag, and disable/enable and extend leave
\* its boundSlaveId.
C23_FieldsKept ==
    /\ [](/\ \A o \in TenantOutcomes \cup EnabledOutcomes \cup ExtendOutcomes \cup RegistryOutcomes :
                \A id \in Kept(o.clients) :
                    Identity(Rec(o.clients, id)) = Identity(Rec(clients, id))
          /\ \A o \in TenantOutcomes \cup EnabledOutcomes \cup RegistryOutcomes :
                \A id \in Kept(o.clients) :
                    Rec(o.clients, id).expiresAt = Rec(clients, id).expiresAt
          /\ \A o \in TenantOutcomes \cup ExtendOutcomes \cup RegistryOutcomes :
                \A id \in Kept(o.clients) :
                    Rec(o.clients, id).enabled = Rec(clients, id).enabled
          /\ \A o \in EnabledOutcomes \cup ExtendOutcomes :
                \A id \in Kept(o.clients) :
                    Rec(o.clients, id).boundSlaveId = Rec(clients, id).boundSlaveId)
    /\ [][\A id \in Kept(clients') :
              Identity(Rec(clients', id)) = Identity(Rec(clients, id))]_vars

\* A client bound to S1 was extended after it lapsed and is now disabled
C23_Witness ==
    /\ now = 31
    /\ \E i \in 1..Len(clients) :
          /\ clients[i].boundSlaveId = "S1" /\ ~clients[i].enabled
          /\ clients[i].createdAt = 0 /\ clients[i].expiresAt = 62

AllOutcomes(key, group, slaveId) ==
    UNION {{RegisterOutcome(key, group, slaveId, bad),
            PollOutcome(key, group, slaveId, Absent, Absent, bad)}
           \cup {AckOutcome(key, group, slaveId, a[1], a[2], bad) : a \in AnyAck} :
           bad \in AnyBad}

\* C24: a register, poll or ack answered 400, 401 or 403 leaves the clients
\* and the slave cursors exactly as they were.
C24_RejectedChangesNothing ==
    \A key \in AnyKey, group \in AnyGroup, slaveId \in AnySlave :
        \A o \in AllOutcomes(key, group, slaveId) :
            o.status \in {400, 401, 403} => o.clients = clients /\ o.slaves = slaves

\* A client bound to S1 with a cursor refuses S2, and another client has lapsed
C24_Witness ==
    /\ \E i \in 1..Len(clients) :
          /\ clients[i].boundSlaveId = "S1"
          /\ slaveKey(clients[i].groupId, "S1") \in DOMAIN slaves
          /\ RegisterOutcome(clients[i].apiKey, clients[i].groupId, "S2", {}).status = 403
          /\ AckOutcome(clients[i].apiKey, clients[i].groupId, "S2", Numeral(1), "DONE", {}).status = 403
    /\ \E i \in 1..Len(clients) :
          /\ clients[i].boundSlaveId = "" /\ ~IsActive(clients[i])
          /\ PollOutcome(clients[i].apiKey, clients[i].groupId, "S1", Absent, Absent, {}).status = 403

(* Properties of the slave that follows the log, under SpecFollow *)
Following == \E i \in 1..Len(clients) :
                /\ clients[i].apiKey = "K1" /\ clients[i].boundSlaveId = "S1"
                /\ IsActive(clients[i])
AllReceived ==
    \A e \in 1..Len(copier.events) :
        copier.events[e].group = "G1" => \E a \in 1..Len(got) : got[a] = copier.events[e].id

C26_AckWithinIssued ==
    \A k \in DOMAIN slaves : slaves[k].lastAckId <= copier.nextId - 1

(* Properties of the one identity per client, under Spec *)
\* The cursors of `sl` other than the one of (group, slaveId) are those of slaves
OnlyCursor(sl, group, slaveId) ==
    /\ DOMAIN slaves \subseteq DOMAIN sl
    /\ \A k \in DOMAIN sl \ {slaveKey(group, slaveId)} : k \in DOMAIN slaves /\ sl[k] = slaves[k]
BoundAfter(o, key) ==
    LET c == SelectSeq(o.clients, LAMBDA x : x.apiKey = key) IN c[1].boundSlaveId

====
